---- MODULE Spec2Model ----
(***************************************************************************)
(* RingBuffer<T> of CasualX/ringbuf: a growable ring buffer on a mirrored  *)
(* virtual-memory mapping (src/src/lib.rs, src/src/platform*.rs).          *)
(*                                                                         *)
(* Addresses are byte offsets relative to the mapping's base pointer.  A   *)
(* mapping is a page table vm (virtual offset -> offset in the backing     *)
(* object, or NoAccess) over 0 .. 2*cap-1 and the backing object file      *)
(* (offset -> byte) over 0 .. cap-1.  An element with identity e occupies  *)
(* size_of bytes <<e,0>> .. <<e,size_of-1>>.                               *)
(***************************************************************************)
EXTENDS Integers, Sequences, FiniteSets, TLC

VARIABLES
    size_of,    \* mem::size_of::<T>()
    ptr,        \* RingBuffer.ptr: 0 is NonNull::dangling(), n > 0 an address
    cap,        \* RingBuffer.cap (bytes of one half)
    base,       \* RingBuffer.base (byte offset)
    len,        \* RingBuffer.len (elements)
    vm,         \* page table of the mapping at ptr
    file,       \* backing object of the mapping at ptr
    maps,       \* live: the mappings [ptr, cap] allocated and not freed; bad: a free
                \* was given something else than a live mapping and its cap
    alive,      \* FALSE once the buffer has been dropped
    nextId,     \* identity of the next element to be constructed
    ended,      \* ended[e]: times element e was destructed or handed back by pop
    op,         \* the last operation: its name and what it did
    run,        \* the current run of consecutive pushes and the pops that follow it
    pushOnly,   \* TRUE while every operation so far was a successful push
    ext,        \* the last extend_from_slice: content before it, the slice
    calc,       \* a capacity computation run on its own: its inputs, its result
    copy,       \* the buffer that clone() returned, once it was called
    list,       \* the abstract list that the calls so far make
    win         \* windows.rs allocate run call by call beside another thread

vars == <<size_of, ptr, cap, base, len, vm, file, maps, alive,
          nextId, ended, op, run, pushOnly, ext, calc, copy, list, win>>

----------------------------------------------------------------------------
\* Bounds of the model.

\* Width of usize in bits (64 in the build).
UsizeBits == 6
\* Number of elements constructed over a buffer's life.
MaxElems == 4
\* Largest argument of a call (a count of elements), longest slice appended.
MaxArg == MaxElems \div 2

\* granularity(): the allocation granularity, a power of two.
Granularity == 4

\* size_of::<T>(): a byte, and a size that does not divide the granularity, so
\* that an element can lie across the end of the first half.
ElemSizes == {1, 3}

\* The backends of platform.rs.  One is compiled in; the model lets every call of
\* allocate run on any of them, which includes the runs of each build.
Platforms == {"linux", "macos", "windows"}

Usize == 2 ^ UsizeBits
UsizeMax == Usize - 1
IsizeMax == 2 ^ (UsizeBits - 1) - 1

Min(a, b) == IF a < b THEN a ELSE b

\* Wrapping usize arithmetic.
Wrap(x) == x % Usize

RECURSIVE BitAnd(_, _)
BitAnd(a, b) ==
    IF a = 0 \/ b = 0 THEN 0
    ELSE (IF a % 2 = 1 /\ b % 2 = 1 THEN 1 ELSE 0) + 2 * BitAnd(a \div 2, b \div 2)

BitNot(a) == UsizeMax - a

----------------------------------------------------------------------------
\* Memory.

NoAccess == -1
ZeroByte == <<0, 0>>
Fault == <<-1, -1>>

\* The entry of virtual offset v in page table t.
VmAt(t, v) == IF v \in DOMAIN t THEN t[v] ELSE NoAccess

\* The byte read at virtual offset v of mapping (t, f).
LoadIn(t, f, v) == IF VmAt(t, v) \in DOMAIN f THEN f[VmAt(t, v)] ELSE Fault

\* The backing object after writing bytes bs (a sequence) at virtual offsets a, a+1, ...
StoreIn(t, f, a, bs) ==
    [o \in DOMAIN f |->
        IF \E i \in 1..Len(bs) : VmAt(t, a + i - 1) = o
        THEN bs[CHOOSE i \in 1..Len(bs) :
                    /\ VmAt(t, a + i - 1) = o
                    /\ \A j \in (i+1)..Len(bs) : VmAt(t, a + j - 1) # o]
        ELSE f[o]]

\* The bytes of element e.
ElemBytes(e, sz) == [k \in 1..sz |-> <<e, k - 1>>]

RECURSIVE Flatten(_, _)
Flatten(es, sz) ==
    IF es = <<>> THEN <<>> ELSE ElemBytes(Head(es), sz) \o Flatten(Tail(es), sz)

\* Element e if the sz bytes at virtual offset a are its bytes, else 0.
IfElem(t, f, a, sz, e) ==
    IF e > 0 /\ \A k \in 0..(sz - 1) : LoadIn(t, f, a + k) = <<e, k>> THEN e ELSE 0

\* The element read at virtual offset a: its identity, or 0 when the bytes there
\* are not those of one element.
ReadIn(t, f, a, sz) == IfElem(t, f, a, sz, LoadIn(t, f, a)[1])

\* The n bytes read from virtual offset a on.
BytesIn(t, f, a, n) == [i \in 1..n |-> LoadIn(t, f, a + i - 1)]

Load(v) == LoadIn(vm, file, v)

----------------------------------------------------------------------------
\* platform: the mirrored memory allocator.

\* (cap & !(g - 1)) + g: a rounding that takes a multiple of g to the next one.
RoundUpBumping(raw, g) == Wrap(BitAnd(Wrap(raw), BitNot(g - 1)) + g)

\* ((cap - 1) & !(g - 1)) + g in wrapping usize arithmetic.
RoundUp(raw, g) == Wrap(BitAnd(Wrap(raw - 1), BitNot(g - 1)) + g)

\* round_capacity with a wrapping multiplication for checked_mul.
AcceptedWrapping(raw, rounded) ==
    IF rounded = 0 \/ rounded >= IsizeMax \div 2 THEN [ok |-> FALSE, cap |-> 0]
    ELSE [ok |-> TRUE, cap |-> rounded]

\* The checks of round_capacity on the byte count raw and its rounding.
Accepted(raw, rounded) ==
    IF raw > UsizeMax THEN [ok |-> FALSE, cap |-> 0]
    ELSE IF rounded = 0 \/ rounded >= IsizeMax \div 2 THEN [ok |-> FALSE, cap |-> 0]
    ELSE [ok |-> TRUE, cap |-> rounded]

\* round_capacity(cap, size_of) where granularity() is g.
RoundedAt(capacity, sz, g) == Accepted(capacity * sz, RoundUp(capacity * sz, g))

\* round_capacity(cap, size_of): [ok, cap]; ok = FALSE is invalid_capacity's panic.
round_capacity(capacity, sz) == RoundedAt(capacity, sz, Granularity)

\* An address range of n bytes reserved with no access rights.
ReserveRange(n) == [v \in 0..(n - 1) |-> NoAccess]

\* An address range of n bytes of private anonymous memory: every byte its own cell,
\* none of them a byte of the backing object 0 .. cap-1 once the first half is remade.
AnonRange(n) == [v \in 0..(n - 1) |-> v]

\* Page table t with length bytes of the backing object, from offset off on,
\* mapped at virtual offset addr (mmap MAP_SHARED|MAP_FIXED, MapViewOfFileEx).
MapFixed(t, addr, length, off) ==
    [v \in DOMAIN t |-> IF addr <= v /\ v < addr + length THEN off + (v - addr) ELSE t[v]]

\* Page table t with the length bytes at src also mapped at to (mach_vm_remap, copy = 0).
Remap(t, to, length, src) ==
    [v \in DOMAIN t |-> IF to <= v /\ v < to + length THEN VmAt(t, src + (v - to)) ELSE t[v]]

\* The OS calls of each backend that can fail; "none": every call succeeds.
OsCalls(plat) ==
    CASE plat = "linux" -> {"none", "memfd_create", "ftruncate", "mmap", "mmap_fixed"}
      [] plat = "macos" -> {"none", "vm_allocate", "vm_allocate_fixed",
                            "make_memory_entry_64", "vm_remap"}
      [] plat = "windows" -> {"none", "CreateFileMapping", "VirtualAlloc", "MapViewOfFileEx"}

\* What the OS does in one call of allocate: the backend, the call that fails.
OsOutcomes ==
    UNION {{[platform |-> plat, failed |-> f] : f \in OsCalls(plat)} : plat \in Platforms}

\* The outcomes in which every OS call succeeds.
OsSuccesses == {os \in OsOutcomes : os.failed = "none"}

\* linux.rs allocate with the second half left as reserved.
linux_map_first_half_only(c) == MapFixed(ReserveRange(c + c), 0, c, 0)

\* linux.rs allocate, after round_capacity: the page table on success.
linux_map(c) == MapFixed(MapFixed(ReserveRange(c + c), 0, c, 0), c, c, 0)

\* macos.rs allocate, after round_capacity: the page table on success.
macos_map(c) == Remap(MapFixed(AnonRange(c + c), 0, c, 0), c, c, 0)

\* windows.rs allocate, after round_capacity: the page table on success.
windows_map(c) == MapFixed(MapFixed(ReserveRange(c + c), 0, c, 0), c, c, 0)

\* Page table t without the length bytes from addr on (munmap, mach_vm_deallocate,
\* VirtualFree MEM_RELEASE, UnmapViewOfFile).
Unmap(t, addr, length) ==
    [v \in {u \in DOMAIN t : u < addr \/ u >= addr + length} |-> t[v]]

\* A view of the c bytes of the backing object at the address asked for, the
\* reservation there having been released (VirtualFree, then MapViewOfFileEx).
View(c) == [v \in 0..(c - 1) |-> v]

\* linux.rs allocate raising the error of a failed fixed mapping without munmap.
linux_failed_no_munmap(c, failing) ==
    IF failing = "mmap_fixed" THEN MapFixed(ReserveRange(c + c), 0, c, 0) ELSE <<>>

\* linux.rs allocate, the call named failing: the page table when error() is called.
linux_failed(c, failing) ==
    CASE failing = "memfd_create" -> <<>>
      [] failing = "ftruncate" -> <<>>
      [] failing = "mmap" -> <<>>
      [] failing = "mmap_fixed" -> Unmap(MapFixed(ReserveRange(c + c), 0, c, 0), 0, c + c)

\* macos.rs allocate, the call named failing: the page table when error() is called.
macos_failed(c, failing) ==
    CASE failing = "vm_allocate" -> <<>>
      [] failing = "vm_allocate_fixed" -> AnonRange(c + c)
      [] failing = "make_memory_entry_64" ->
            Unmap(MapFixed(AnonRange(c + c), 0, c, 0), 0, c + c)
      [] failing = "vm_remap" -> Unmap(MapFixed(AnonRange(c + c), 0, c, 0), 0, c + c)

\* windows.rs allocate, the call named failing: the page table when error() is
\* called; of the two views the second failed in each of the attempts.
windows_failed(c, failing) ==
    CASE failing = "CreateFileMapping" -> <<>>
      [] failing = "VirtualAlloc" -> <<>>
      [] failing = "MapViewOfFileEx" -> Unmap(View(c), 0, c)

\* The page table a failing allocate leaves behind.
Failed(c, os) ==
    CASE os.platform = "linux" -> linux_failed(c, os.failed)
      [] os.platform = "macos" -> macos_failed(c, os.failed)
      [] os.platform = "windows" -> windows_failed(c, os.failed)

NoMaps == [live |-> {}, bad |-> FALSE]

\* The address the OS places a new mapping at, ms being the mappings in place:
\* the lowest one free (0 stands for NonNull::dangling()).
FreeAddress(ms) ==
    CHOOSE p \in 1..(Cardinality(ms.live) + 1) :
        /\ \A m \in ms.live : m.ptr # p
        /\ \A q \in 1..(p - 1) : \E m \in ms.live : m.ptr = q

\* allocate, after round_capacity returned rc.
Mapped(rc, os, ms) ==
    IF ~rc.ok
    THEN [ok |-> FALSE, ptr |-> 0, cap |-> 0, vm |-> <<>>, file |-> <<>>, left |-> <<>>]
    ELSE IF os.failed # "none"
    THEN [ok |-> FALSE, ptr |-> 0, cap |-> 0, vm |-> <<>>, file |-> <<>>,
          left |-> Failed(rc.cap, os)]
    ELSE [ok |-> TRUE, ptr |-> FreeAddress(ms), cap |-> rc.cap, left |-> <<>>,
          vm |-> CASE os.platform = "linux" -> linux_map(rc.cap)
                   [] os.platform = "macos" -> macos_map(rc.cap)
                   [] os.platform = "windows" -> windows_map(rc.cap),
          file |-> [o \in 0..(rc.cap - 1) |-> ZeroByte]]

\* allocate(cap, size_of) under OS outcome os, ms being the mappings in place:
\* [ok, ptr, cap, vm, file, left].  ok = FALSE is a panic (invalid_capacity or
\* error), left the page table of the address range it left reserved or mapped.
allocate(capacity, sz, os, ms) ==
    IF capacity = 0
    THEN [ok |-> TRUE, ptr |-> 0, cap |-> 0, vm |-> <<>>, file |-> <<>>, left |-> <<>>]
    ELSE Mapped(round_capacity(capacity, sz), os, ms)

\* platform::free(ptr, cap) on the mappings ms.  Unmapping no bytes at the
\* dangling pointer does nothing.
free(ms, p, c) ==
    IF [ptr |-> p, cap |-> c] \in ms.live
    THEN [ms EXCEPT !.live = @ \ {[ptr |-> p, cap |-> c]}]
    ELSE IF p = 0 /\ c = 0 THEN ms
    ELSE [ms EXCEPT !.bad = TRUE]

----------------------------------------------------------------------------
\* RingBuffer<T>.  The methods are operators on a record s of the buffer's fields
\* and its mapping, extended with what the call did: panic (it unwound), grew (it
\* reallocated), ub (it reached hint::unreachable_unchecked), ret (pop's result,
\* 0 for None), dropped (the elements whose destructor it ran, in order) and left
\* (the page table of what a failing allocate left reserved or mapped) and calls
\* (the times it called the closure it was given), uaf (it read, wrote or
\* destructed an element in a mapping that was freed).

Self ==
    [ptr |-> ptr, cap |-> cap, base |-> base, len |-> len,
     vm |-> vm, file |-> file, maps |-> maps,
     panic |-> FALSE, grew |-> FALSE, ub |-> FALSE, ret |-> 0, dropped |-> <<>>,
     left |-> <<>>, calls |-> 0, uaf |-> FALSE]

\* RingBuffer::new()
new ==
    [ptr |-> 0, cap |-> 0, base |-> 0, len |-> 0,
     vm |-> <<>>, file |-> <<>>, maps |-> NoMaps,
     panic |-> FALSE, grew |-> FALSE, ub |-> FALSE, ret |-> 0, dropped |-> <<>>,
     left |-> <<>>, calls |-> 0, uaf |-> FALSE]

\* RingBuffer { ptr, cap, base: 0, len: 0 } on the mapping a that allocate returned,
\* ms being the mappings in place before; a panic if allocate panicked.
OnMapping(a, ms) ==
    IF ~a.ok THEN [new EXCEPT !.maps = ms, !.panic = TRUE, !.left = a.left]
    ELSE [new EXCEPT !.ptr = a.ptr, !.cap = a.cap, !.vm = a.vm, !.file = a.file,
                     !.maps = IF a.ptr = 0 THEN ms
                              ELSE [ms EXCEPT !.live = @ \cup {[ptr |-> a.ptr, cap |-> a.cap]}]]

\* with_capacity that allocates for capacity 0 too.
with_capacity_eager(capacity, sz, os, ms) ==
    OnMapping(allocate(IF capacity = 0 THEN 1 ELSE capacity, sz, os, ms), ms)

\* RingBuffer::with_capacity(capacity), ms being the mappings in place.
with_capacity_in(capacity, sz, os, ms) ==
    IF capacity = 0 THEN [new EXCEPT !.maps = ms]
    ELSE OnMapping(allocate(capacity, sz, os, ms), ms)

\* RingBuffer::with_capacity(capacity), the first buffer of the program.
with_capacity(capacity, sz, os) == with_capacity_in(capacity, sz, os, NoMaps)

capacity_of(s) == s.cap \div size_of
as_ptr(s) == s.base
\* reserved_len without the division of cap by the element size.
reserved_len_in_bytes(s) == Wrap(s.cap - s.len)

reserved_len(s) == Wrap(s.cap \div size_of - s.len)
reserved_ptr(s) == as_ptr(s) + s.len * size_of

\* The n elements read from virtual offset a on.
ElemsAt(s, a, n) == [i \in 1..n |-> ReadIn(s.vm, s.file, a + (i - 1) * size_of, size_of)]

\* as_slice(): len elements from as_ptr() on.
slice_of(s) == ElemsAt(s, as_ptr(s), s.len)

capacity == capacity_of(Self)
as_slice == slice_of(Self)

\* The buffer s accesses n of its elements, ms being the mappings in place: TRUE
\* if it did so before, or does so now, in a mapping that was freed.
Touched(s, ms, n) ==
    s.uaf \/ (n > 0 /\ [ptr |-> s.ptr, cap |-> s.cap] \notin ms.live)

\* platform::free, and then drop_in_place of the n elements from a on.
ReleasedFreeingFirst(s, a, n) ==
    [s EXCEPT !.maps = free(s.maps, s.ptr, s.cap),
              !.dropped = s.dropped \o ElemsAt(s, a, n),
              !.uaf = Touched(s, free(s.maps, s.ptr, s.cap), n)]

\* drop_in_place of the n elements from virtual offset a on, and platform::free.
Released(s, a, n) ==
    [s EXCEPT !.dropped = s.dropped \o ElemsAt(s, a, n),
              !.uaf = Touched(s, s.maps, n),
              !.maps = free(s.maps, s.ptr, s.cap)]

\* drop without platform::free.
drop_keeping_mapping(s) ==
    [s EXCEPT !.len = 0, !.dropped = s.dropped \o ElemsAt(s, as_ptr(s), s.len)]

\* impl Drop for RingBuffer: drop(&mut self)
drop(s) == Released([s EXCEPT !.len = 0], as_ptr(s), s.len)

\* reallocate: the elements of s copied into the new buffer rb.
Moved(s, rb) ==
    [rb EXCEPT !.file = StoreIn(rb.vm, rb.file, as_ptr(rb),
                                BytesIn(s.vm, s.file, as_ptr(s), s.len * size_of)),
               !.len = s.len,
               !.uaf = Touched(s, rb.maps, s.len) \/ Touched(rb, rb.maps, s.len)]

\* reallocate: *self = rb, old being what dropping the replaced value left.
Replaced(rb, old) ==
    [rb EXCEPT !.maps = old.maps, !.dropped = old.dropped, !.grew = TRUE,
               !.uaf = rb.uaf \/ old.uaf]

\* reallocate, from the copy on; rb is the new buffer.
Relocated(s, rb) ==
    IF rb.panic THEN [s EXCEPT !.panic = TRUE, !.left = rb.left]
    ELSE Replaced(Moved(s, rb), drop([s EXCEPT !.len = 0, !.maps = rb.maps]))

\* reallocate copying from the start of the old mapping, not from base.
reallocate_from_start(s, additional, os) ==
    IF s.len + additional > UsizeMax THEN [s EXCEPT !.panic = TRUE]
    ELSE Relocated([s EXCEPT !.base = 0],
                   OnMapping(allocate(s.len + additional, size_of, os, s.maps), s.maps))

\* reallocate, from the copy on, without self.len = 0 before *self = rb.
RelocatedKeepingLen(s, rb) ==
    IF rb.panic THEN [s EXCEPT !.panic = TRUE]
    ELSE Replaced(Moved(s, rb), drop([s EXCEPT !.maps = rb.maps]))

reallocate_keeping_len(s, additional, os) ==
    IF s.len + additional > UsizeMax THEN [s EXCEPT !.panic = TRUE]
    ELSE RelocatedKeepingLen(s, OnMapping(allocate(s.len + additional, size_of, os, s.maps),
                                          s.maps))

\* reallocate releasing the old mapping before it allocates the new one.
RelocatedAfterFree(s, rb) ==
    IF rb.panic THEN [s EXCEPT !.panic = TRUE, !.maps = rb.maps]
    ELSE [Moved(s, rb) EXCEPT !.grew = TRUE]

reallocate_freeing_first(s, additional, os) ==
    IF s.len + additional > UsizeMax THEN [s EXCEPT !.panic = TRUE]
    ELSE RelocatedAfterFree(s, OnMapping(allocate(s.len + additional, size_of, os,
                                                  free(s.maps, s.ptr, s.cap)),
                                         free(s.maps, s.ptr, s.cap)))

\* usize::checked_add: [ok, cap]; ok = FALSE is None.
checked_add(a, b) ==
    IF a + b > UsizeMax THEN [ok |-> FALSE, cap |-> 0] ELSE [ok |-> TRUE, cap |-> a + b]

\* reallocate, after checked_add returned sum.
Grown(s, sum, os) ==
    IF ~sum.ok THEN [s EXCEPT !.panic = TRUE]
    ELSE Relocated(s, OnMapping(allocate(sum.cap, size_of, os, s.maps), s.maps))

\* reallocate asking for room for twice the elements present.
reallocate_doubling(s, additional, os) ==
    Grown(s, checked_add(s.len + s.len, additional), os)

\* reallocate(additional)
reallocate(s, additional, os) == Grown(s, checked_add(s.len, additional), os)

\* reserve: the second test, after reallocate left r.
Hinted(r, additional) ==
    IF ~r.panic /\ additional > reserved_len(r) THEN [r EXCEPT !.ub = TRUE] ELSE r

\* reserve reallocating also when the spare capacity is exactly additional.
reserve_eager(s, additional, os) ==
    IF additional >= reserved_len(s) THEN Hinted(reallocate(s, additional, os), additional)
    ELSE s

\* reserve(additional)
reserve(s, additional, os) ==
    IF additional > reserved_len(s) THEN Hinted(reallocate(s, additional, os), additional)
    ELSE s

\* The values written at virtual offset a of r, r.len set to n; r if it panicked.
Written(r, a, values, n) ==
    IF r.panic THEN r
    ELSE [r EXCEPT !.file = StoreIn(r.vm, r.file, a, Flatten(values, size_of)), !.len = n,
                   !.uaf = Touched(r, r.maps, Len(values))]

\* push, after reserve left r.
Pushed(r, value) == Written(r, as_ptr(r) + r.len * size_of, <<value>>, Wrap(r.len + 1))

\* push writing at as_mut_ptr() advanced by len bytes, not len elements.
PushedUnscaled(r, value) == Written(r, as_ptr(r) + r.len, <<value>>, Wrap(r.len + 1))

push_unscaled(s, value, os) == PushedUnscaled(reserve(s, 1, os), value)

\* push(value)
push(s, value, os) == Pushed(reserve(s, 1, os), value)

\* The base offset b adjusted to a mapping of c bytes a half.
Adjusted(b, c) == IF b >= c THEN b - c ELSE b

\* from_iter: the loop, rb.push(value) for every value of the iterator.
RECURSIVE Collected(_, _, _)
Collected(rb, values, os) ==
    IF values = <<>> \/ rb.panic THEN rb
    ELSE Collected(push(rb, Head(values), os), Tail(values), os)

\* FromIterator::from_iter(iter): values are the items of iter, their number its
\* size_hint().0; ms are the mappings in place.
from_iter(values, os, ms) ==
    Collected(with_capacity_in(Len(values), size_of, os, ms), values, os)

\* A clone that copies the fields ptr, cap, base and len.
clone_fields(s, os) == s

\* Clone::clone(&self): self.as_slice().iter().cloned().collect()
clone(s, os) == from_iter(slice_of(s), os, s.maps)

\* pop() without the adjustment of the base offset.
pop_unadjusted(s) ==
    IF s.len = 0 THEN s
    ELSE [s EXCEPT !.len = s.len - 1,
                   !.base = s.base + size_of,
                   !.ret = ReadIn(s.vm, s.file, as_ptr(s), size_of)]

\* pop()
pop(s) ==
    IF s.len = 0 THEN s
    ELSE [s EXCEPT !.len = s.len - 1,
                   !.base = Adjusted(s.base + size_of, s.cap),
                   !.ret = ReadIn(s.vm, s.file, as_ptr(s), size_of),
                   !.uaf = Touched(s, s.maps, 1)]

\* remove_tail, n being min(len, n).
Removed(s, n) ==
    [s EXCEPT !.len = s.len - n,
              !.base = Adjusted(s.base + n * size_of, s.cap),
              !.dropped = s.dropped \o ElemsAt(s, as_ptr(s), n),
              !.uaf = Touched(s, s.maps, n)]

\* remove_tail without min(len, n).
remove_tail_unclamped(s, n) == Removed(s, n)

\* remove_tail advancing base by n bytes, not n elements.
RemovedUnscaled(s, n) ==
    [s EXCEPT !.len = s.len - n,
              !.base = Adjusted(s.base + n, s.cap),
              !.dropped = s.dropped \o ElemsAt(s, as_ptr(s), n)]

remove_tail_unscaled(s, n) == RemovedUnscaled(s, Min(s.len, n))

\* remove_tail(n)
remove_tail(s, n) == Removed(s, Min(s.len, n))

\* truncate(len) dropping the elements at the start of the window.
truncate_front(s, n) ==
    IF n > s.len THEN s
    ELSE [s EXCEPT !.len = n,
                   !.base = Adjusted(s.base + (s.len - n) * size_of, s.cap),
                   !.dropped = s.dropped \o ElemsAt(s, as_ptr(s), s.len - n)]

\* truncate(len)
truncate(s, n) ==
    IF n > s.len THEN s
    ELSE [s EXCEPT !.len = n,
                   !.dropped = s.dropped \o ElemsAt(s, as_ptr(s) + n * size_of, s.len - n),
                   !.uaf = Touched(s, s.maps, s.len - n)]

\* clear giving the mapping back.
clear_releasing(s) ==
    [s EXCEPT !.len = 0, !.dropped = s.dropped \o ElemsAt(s, as_ptr(s), s.len),
              !.ptr = 0, !.cap = 0, !.base = 0, !.vm = <<>>, !.file = <<>>,
              !.maps = free(s.maps, s.ptr, s.cap)]

\* clear()
clear(s) ==
    [s EXCEPT !.len = 0, !.dropped = s.dropped \o ElemsAt(s, as_ptr(s), s.len),
              !.uaf = Touched(s, s.maps, s.len)]

\* extend_from_slice, after reserve left r.
Extended(r, other) ==
    Written(r, as_ptr(r) + r.len * size_of, other, Wrap(r.len + Len(other)))

\* extend_from_slice(other)
extend_from_slice(s, other, os) == Extended(reserve(s, Len(other), os), other)

\* set_len(new_len)
set_len(s, new_len) == [s EXCEPT !.len = new_len]

\* add_len(additional)
add_len(s, additional) == [s EXCEPT !.len = Wrap(s.len + additional)]

\* resize_with, after reserve left r: ptr.write(f()) slot after slot, set_len(new_len).
Filled(r, made, new_len) ==
    IF r.panic THEN r
    ELSE [set_len(Written(r, reserved_ptr(r), made, r.len), new_len)
             EXCEPT !.calls = Len(made)]

\* resize_with that leaves a longer buffer as it is.
resize_with_growing_only(s, new_len, made, os) ==
    IF new_len <= s.len THEN s
    ELSE Filled(reserve(s, new_len - s.len, os), SubSeq(made, 1, new_len - s.len), new_len)

\* resize_with(new_len, f): made is the sequence of values f returns, call after call.
resize_with(s, new_len, made, os) ==
    IF new_len <= s.len THEN truncate(s, new_len)
    ELSE Filled(reserve(s, new_len - s.len, os), SubSeq(made, 1, new_len - s.len), new_len)

\* resize(new_len, value): clones is the sequence value.clone() returns, call after call.
resize(s, new_len, clones, os) == resize_with(s, new_len, clones, os)

----------------------------------------------------------------------------
\* The program: a buffer is constructed, operated on and dropped.

\* The capacities the buffer is constructed with (0: new()).
InitCapacities == {0, 1}

Ids == 0..MaxElems

\* The counters d with one more run recorded for every element of ids
\* (index 0 counts runs on bytes that are no element).
Counted(d, ids) ==
    [e \in DOMAIN d |-> d[e] + Cardinality({i \in 1..Len(ids) : ids[i] = e})]

\* The n values constructed next: nextId, nextId + 1, ...
Fresh(n) == [i \in 1..n |-> nextId + i - 1]

\* The OS is asked for memory only by a call that has to grow the buffer.
OsFor(additional) ==
    IF additional > reserved_len(Self) THEN OsOutcomes
    ELSE {[platform |-> "linux", failed |-> "none"]}

\* start, base0: len and base when the run's first push was made; grew: a push
\* of the run reallocated.
NoRun == [start |-> 0, base0 |-> 0, pushed |-> <<>>, popped |-> <<>>, grew |-> FALSE]

\* The window of live elements starts above 0 and runs past cap into the mirror.
Wrapped == base > 0 /\ base + len * size_of > cap

NoExt == [phase |-> 0, old |-> <<>>, s |-> <<>>]

\* clone() was not called.  made: it was; at: the source's slice when it was
\* called; got: the slice of what it returned.
NoClone ==
    [made |-> FALSE, alive |-> FALSE, ptr |-> 0, cap |-> 0, base |-> 0, len |-> 0,
     vm |-> <<>>, file |-> <<>>, at |-> <<>>, got |-> <<>>]

\* Buffer o as it is after a call on a buffer at address p left s: the two are
\* in one address space, so that o's mapping is gone if the call freed it, and
\* holds what the call wrote if it is the mapping the call wrote to.
Seen(o, p, s) ==
    IF o.ptr = 0 THEN o
    ELSE IF [ptr |-> o.ptr, cap |-> o.cap] \notin s.maps.live
    THEN [o EXCEPT !.vm = <<>>, !.file = <<>>]
    ELSE IF o.ptr = p /\ s.ptr = p THEN [o EXCEPT !.file = s.file]
    ELSE o

Constructed(s, name) ==
    /\ ~s.panic
    /\ ptr = s.ptr /\ cap = s.cap /\ base = s.base /\ len = s.len
    /\ vm = s.vm /\ file = s.file /\ maps = s.maps
    /\ alive = TRUE
    /\ nextId = 1
    /\ ended = [e \in Ids |-> 0]
    /\ op = [name |-> name, panic |-> FALSE, grew |-> FALSE, ub |-> FALSE,
             ret |-> 0, wrapped |-> FALSE, clamped |-> FALSE, left |-> <<>>,
             uaf |-> FALSE]
    /\ run = NoRun
    /\ pushOnly = TRUE
    /\ ext = NoExt
    /\ copy = NoClone
    /\ list = <<>>

\* windows.rs allocate is not run call by call.
NoWin == [pc |-> "none", tries |-> 0, base |-> 0, p1 |-> FALSE, p2 |-> FALSE,
          space |-> <<>>, open |-> FALSE, err |-> "none"]

\* No capacity computation is run on its own.
NoCalc == [fn |-> "none", x |-> 0, y |-> 0, g |-> 1, done |-> FALSE,
           ok |-> FALSE, cap |-> 0]

Init ==
    /\ size_of \in ElemSizes
    /\ calc = NoCalc
    /\ win = NoWin
    /\ \/ Constructed(new, "new")
       \/ \E n \in InitCapacities : \E os \in OsSuccesses :
            Constructed(with_capacity(n, size_of, os), "with_capacity")

\* The buffer's fields and mapping after a call that left s, and the record of the
\* call; clamped: it was remove_tail(n) with n > len.
CommitAs(s, name, clamped) ==
    /\ ptr' = s.ptr /\ cap' = s.cap /\ base' = s.base /\ len' = s.len
    /\ vm' = s.vm /\ file' = s.file /\ maps' = s.maps
    /\ ended' = Counted(ended, s.dropped \o (IF s.ret = 0 THEN <<>> ELSE <<s.ret>>))
    /\ op' = [name |-> name, panic |-> s.panic, grew |-> s.grew, ub |-> s.ub,
              ret |-> s.ret, wrapped |-> s.grew /\ Wrapped, clamped |-> clamped,
              left |-> s.left, uaf |-> s.uaf]
    /\ copy' = Seen(copy, ptr, s)
    /\ UNCHANGED <<size_of, calc, win>>

Commit(s, name) == CommitAs(s, name, FALSE)

\* Commit, n values having been constructed by the call unless it panicked.
CommitMade(s, name, n) ==
    /\ Commit(s, name)
    /\ nextId' = IF s.panic THEN nextId ELSE nextId + n

\* The run of pushes after a push that left s.
RunPushed(s) ==
    IF s.panic THEN NoRun
    ELSE IF run.pushed # <<>> /\ run.popped = <<>>
    THEN [run EXCEPT !.pushed = Append(@, nextId), !.grew = @ \/ s.grew]
    ELSE [start |-> len, base0 |-> base, pushed |-> <<nextId>>,
          popped |-> <<>>, grew |-> s.grew]

\* The run of pushes after a pop that left s.
RunPopped(s) ==
    IF run.pushed # <<>> /\ Len(run.popped) < Len(run.pushed)
    THEN [run EXCEPT !.popped = Append(@, s.ret)]
    ELSE NoRun

\* The abstract list q without its first n elements, or empty.
Behead(q, n) == SubSeq(q, Min(n, Len(q)) + 1, Len(q))

\* The abstract list q cut to its first n elements, or as it is.
Keep(q, n) == IF n >= Len(q) THEN q ELSE SubSeq(q, 1, n)

\* The abstract list q with values at its end, unless the call left s panicking.
Put(q, values, s) == IF s.panic THEN q ELSE q \o values

PushDone(s) ==
    /\ CommitMade(s, "push", 1)
    /\ list' = Put(list, <<nextId>>, s)
    /\ run' = RunPushed(s)
    /\ pushOnly' = (pushOnly /\ ~s.panic)

Push(os) ==
    /\ alive /\ nextId <= MaxElems
    /\ PushDone(push(Self, nextId, os))
    /\ ext' = NoExt
    /\ UNCHANGED alive

PopDone(s) ==
    /\ Commit(s, "pop")
    /\ run' = RunPopped(s)

Pop ==
    /\ alive
    /\ PopDone(pop(Self))
    /\ list' = Behead(list, 1)
    /\ pushOnly' = FALSE /\ ext' = NoExt
    /\ UNCHANGED <<alive, nextId>>

RemoveTail(n) ==
    /\ alive
    /\ CommitAs(remove_tail(Self, n), "remove_tail", n > len)
    /\ list' = Behead(list, n)
    /\ ext' = IF ext.phase = 1 /\ n = Len(ext.s) /\ n > 0
              THEN [ext EXCEPT !.phase = 2] ELSE NoExt
    /\ run' = NoRun /\ pushOnly' = FALSE
    /\ UNCHANGED <<alive, nextId>>

Truncate(n) ==
    /\ alive
    /\ Commit(truncate(Self, n), "truncate")
    /\ list' = Keep(list, n)
    /\ run' = NoRun /\ pushOnly' = FALSE /\ ext' = NoExt
    /\ UNCHANGED <<alive, nextId>>

Clear ==
    /\ alive
    /\ Commit(clear(Self), "clear")
    /\ list' = <<>>
    /\ run' = NoRun /\ pushOnly' = FALSE /\ ext' = NoExt
    /\ UNCHANGED <<alive, nextId>>

Reserve(additional, os) ==
    /\ alive
    /\ Commit(reserve(Self, additional, os), "reserve")
    /\ list' = list
    /\ run' = NoRun /\ pushOnly' = FALSE /\ ext' = NoExt
    /\ UNCHANGED <<alive, nextId>>

ExtendDone(s, other) ==
    /\ CommitMade(s, "extend_from_slice", Len(other))
    /\ list' = Put(list, other, s)
    /\ ext' = IF s.panic THEN NoExt ELSE [phase |-> 1, old |-> as_slice, s |-> other]

ExtendFromSlice(m, os) ==
    /\ alive
    /\ nextId + m - 1 <= MaxElems
    /\ ExtendDone(extend_from_slice(Self, Fresh(m), os), Fresh(m))
    /\ run' = NoRun /\ pushOnly' = FALSE
    /\ UNCHANGED alive

\* The values f is asked for in resize_with(new_len, f) on a buffer of length len.
Asked(new_len) == IF new_len > len THEN new_len - len ELSE 0

\* resize_with(new_len, f), and resize(new_len, value), which is
\* resize_with(new_len, move || value.clone()).
ResizeWith(new_len, os) ==
    /\ alive
    /\ nextId + Asked(new_len) - 1 <= MaxElems
    /\ CommitMade(resize(Self, new_len, Fresh(Asked(new_len)), os), "resize_with",
                  Asked(new_len))
    /\ list' = Put(Keep(list, new_len), Fresh(Asked(new_len)),
                   resize(Self, new_len, Fresh(Asked(new_len)), os))
    /\ run' = NoRun /\ pushOnly' = FALSE /\ ext' = NoExt
    /\ UNCHANGED alive

\* The slots of reserved_mut() that the caller fills with the values.
FilledByCaller(s, values) ==
    [s EXCEPT !.file = StoreIn(s.vm, s.file, reserved_ptr(s), Flatten(values, size_of))]

\* The caller fills additional slots of reserved_mut() and calls add_len(additional),
\* meeting its precondition len + additional <= capacity().
AddLen(additional) ==
    /\ alive
    /\ len + additional <= capacity
    /\ nextId + additional - 1 <= MaxElems
    /\ CommitMade(add_len(FilledByCaller(Self, Fresh(additional)), additional),
                  "add_len", additional)
    /\ list' = list \o Fresh(additional)
    /\ run' = NoRun /\ pushOnly' = FALSE /\ ext' = NoExt
    /\ UNCHANGED alive

\* The caller fills the slots len..new_len of reserved_mut(), if any, and calls
\* set_len(new_len), meeting its precondition new_len <= capacity().
SetLen(new_len) ==
    /\ alive
    /\ new_len <= capacity
    /\ nextId + Asked(new_len) - 1 <= MaxElems
    /\ CommitMade(set_len(FilledByCaller(Self, Fresh(Asked(new_len))), new_len),
                  "set_len", Asked(new_len))
    /\ list' = Keep(list, new_len) \o Fresh(Asked(new_len))
    /\ run' = NoRun /\ pushOnly' = FALSE /\ ext' = NoExt
    /\ UNCHANGED alive

\* The buffer goes out of scope.
Drop ==
    /\ alive
    /\ alive' = FALSE
    /\ Commit(drop(Self), "drop")
    /\ list' = <<>>
    /\ run' = NoRun /\ pushOnly' = FALSE /\ ext' = NoExt
    /\ UNCHANGED nextId

\* The arguments of reserve: the small ones and usize::MAX.
Additionals == 0..MaxArg \cup {UsizeMax}

\* The safe operations.
Next ==
    \/ \E os \in OsFor(1) : Push(os)
    \/ Pop
    \/ \E n \in 0..MaxArg : RemoveTail(n)
    \/ \E n \in 0..MaxArg : Truncate(n)
    \/ Clear
    \/ \E additional \in Additionals : \E os \in OsFor(additional) : Reserve(additional, os)
    \/ \E m \in 0..MaxArg : \E os \in OsFor(m) : ExtendFromSlice(m, os)
    \/ \E new_len \in 0..MaxArg : \E os \in OsFor(Asked(new_len)) : ResizeWith(new_len, os)
    \/ Drop

Spec == Init /\ [][Next]_vars

\* The safe operations and the unsafe add_len and set_len, called as documented.
NextUnsafe ==
    \/ Next
    \/ \E additional \in 0..MaxArg : AddLen(additional)
    \/ \E new_len \in 0..MaxArg : SetLen(new_len)

SpecUnsafe == Init /\ [][NextUnsafe]_vars

----------------------------------------------------------------------------
\* Two buffers: the one constructed, and the one clone() made of it.

\* The clone as the record the methods work on.
OtherSelf ==
    [Self EXCEPT !.ptr = copy.ptr, !.cap = copy.cap, !.base = copy.base,
                 !.len = copy.len, !.vm = copy.vm, !.file = copy.file]

\* The buffer s as the clone.
AsOther(s) ==
    [copy EXCEPT !.ptr = s.ptr, !.cap = s.cap, !.base = s.base, !.len = s.len,
                  !.vm = s.vm, !.file = s.file]

\* The memory of this buffer as the clone's view o of the address space has it.
SeenBySelf(o) ==
    /\ vm' = o.vm /\ file' = o.file
    /\ UNCHANGED <<size_of, ptr, cap, base, len, alive, ended, calc, list, win>>

\* The clone's fields and mapping after a call on it that left s; live: it is
\* still in scope.
CommitOther(s, name, live) ==
    /\ copy' = [AsOther(s) EXCEPT !.alive = live]
    /\ maps' = s.maps
    /\ SeenBySelf(Seen(Self, copy.ptr, s))
    /\ op' = [name |-> name, panic |-> s.panic, grew |-> s.grew, ub |-> s.ub,
              ret |-> s.ret, wrapped |-> FALSE, clamped |-> FALSE, left |-> s.left,
              uaf |-> s.uaf]
    /\ run' = NoRun /\ pushOnly' = FALSE /\ ext' = NoExt

\* What clone() returned as the clone, cloned from a buffer whose slice was at.
Cloned(s, at) ==
    [AsOther(s) EXCEPT !.made = TRUE, !.alive = TRUE, !.at = at, !.got = slice_of(s)]

CloneDone(s) ==
    /\ ~s.panic
    /\ copy' = Cloned(s, as_slice)
    /\ maps' = s.maps
    /\ op' = [name |-> "clone", panic |-> FALSE, grew |-> FALSE, ub |-> s.ub,
              ret |-> 0, wrapped |-> FALSE, clamped |-> FALSE, left |-> <<>>,
              uaf |-> s.uaf]
    /\ run' = NoRun /\ pushOnly' = FALSE /\ ext' = NoExt
    /\ UNCHANGED <<size_of, ptr, cap, base, len, vm, file, alive, nextId, ended, calc,
                   list, win>>

\* let copy = self.clone();
Clone(os) ==
    /\ alive /\ ~copy.made
    /\ CloneDone(clone(Self, os))

OtherPush(os) ==
    /\ copy.alive /\ nextId <= MaxElems
    /\ CommitOther(push(OtherSelf, nextId, os), "clone.push", TRUE)
    /\ nextId' = nextId + 1

OtherPop ==
    /\ copy.alive
    /\ CommitOther(pop(OtherSelf), "clone.pop", TRUE)
    /\ UNCHANGED nextId

OtherDrop ==
    /\ copy.alive
    /\ CommitOther(drop(OtherSelf), "clone.drop", FALSE)
    /\ UNCHANGED nextId

\* push, pop and drop on each of the two buffers: the calls that write to a
\* mapping, move base, allocate and free.
NextClone ==
    \/ \E os \in OsSuccesses : Push(os)
    \/ Pop
    \/ Drop
    \/ \E os \in OsSuccesses : Clone(os)
    \/ \E os \in OsSuccesses : OtherPush(os)
    \/ OtherPop
    \/ OtherDrop

SpecClone == Init /\ [][NextClone]_vars

----------------------------------------------------------------------------
\* The capacity computations of platform::round_capacity and of reallocate, run
\* on their own over the whole range of usize.

\* The granularities: the powers of two below isize::MAX / 2.
Granularities == {2 ^ k : k \in 0..(UsizeBits - 2)}

\* The element sizes: of a zero-sized type, below, at and above the granularity,
\* and the largest.
Sizes == 0..(Granularity + 1) \cup {UsizeMax}

\* round_capacity asked for x elements of y bytes where granularity() is g, or
\* checked_add asked for x + y.
Asks ==
    {[fn |-> "round_capacity", x |-> x, y |-> y, g |-> g, done |-> FALSE,
      ok |-> FALSE, cap |-> 0] : x \in 1..UsizeMax, y \in Sizes, g \in Granularities}
    \cup
    {[fn |-> "checked_add", x |-> x, y |-> y, g |-> 1, done |-> FALSE,
      ok |-> FALSE, cap |-> 0] : x \in 0..UsizeMax, y \in 0..UsizeMax}

InitRound ==
    /\ size_of = 1
    /\ Constructed(new, "new")
    /\ calc \in Asks
    /\ win = NoWin

\* calc with the result r of the computation.
Answered(r) == [calc EXCEPT !.done = TRUE, !.ok = r.ok, !.cap = r.cap]

RoundCapacity ==
    /\ calc.fn = "round_capacity" /\ ~calc.done
    /\ calc' = Answered(RoundedAt(calc.x, calc.y, calc.g))
    /\ UNCHANGED <<size_of, ptr, cap, base, len, vm, file, maps, alive,
                   nextId, ended, op, run, pushOnly, ext, copy, list, win>>

CheckedAdd ==
    /\ calc.fn = "checked_add" /\ ~calc.done
    /\ calc' = Answered(checked_add(calc.x, calc.y))
    /\ UNCHANGED <<size_of, ptr, cap, base, len, vm, file, maps, alive,
                   nextId, ended, op, run, pushOnly, ext, copy, list, win>>

NextRound ==
    \/ RoundCapacity
    \/ CheckedAdd

SpecRound == InitRound /\ [][NextRound]_vars

----------------------------------------------------------------------------
\* windows.rs allocate, OS call by OS call, while another thread of the process
\* allocates and frees address space.  The address space is Slots ranges of cap
\* bytes; space[a] tells what is at range a: "free", "other" (the other thread's),
\* "reserved" (VirtualAlloc MEM_RESERVE of this call) or "view" (a view of the
\* file mapping this call created, from its offset 0 on).

\* for _ in 0..10
Attempts == 10

Slots == 4
Addrs == 0..(Slots - 1)

\* A null pointer returned by VirtualAlloc.
Null == Slots

\* allocate entered, after round_capacity, sp being the address space.
Entered(sp) ==
    [pc |-> "CreateFileMapping", tries |-> 0, base |-> 0, p1 |-> FALSE, p2 |-> FALSE,
     space |-> sp, open |-> FALSE, err |-> "none"]

\* The n ranges from a on are free in sp.
Available(sp, a, n) == \A v \in a..(a + n - 1) : v \in Addrs /\ sp[v] = "free"

\* The address space sp with what at range a.
Marked(sp, a, what) == [sp EXCEPT ![a] = what]

\* error(name), the handle of the file mapping having been closed if it was open.
Errored(w, name) == [w EXCEPT !.pc = "panicked", !.err = name, !.open = FALSE]

\* CreateFileMappingW and the test of its result; ok: it returned a handle.
CreateFileMapping(w, ok) ==
    IF ok THEN [w EXCEPT !.pc = "VirtualAlloc", !.open = TRUE]
    ELSE Errored(w, "CreateFileMapping")

\* The head of the loop: another attempt, or CloseHandle and error("MapViewOfFileEx").
Looped(w) ==
    IF w.tries < Attempts THEN [w EXCEPT !.pc = "VirtualAlloc"]
    ELSE Errored(w, "MapViewOfFileEx")

\* VirtualAlloc(null, cap + cap, MEM_RESERVE) and the test of its result; b is
\* the address it returned.
VirtualAlloc(w, b) ==
    IF b = Null THEN Errored([w EXCEPT !.tries = w.tries + 1], "VirtualAlloc")
    ELSE [w EXCEPT !.tries = w.tries + 1, !.base = b, !.pc = "VirtualFree",
                   !.space = Marked(Marked(w.space, b, "reserved"), b + 1, "reserved")]

\* VirtualFree(base, 0, MEM_RELEASE)
VirtualFree(w) ==
    [w EXCEPT !.pc = "MapViewOfFileEx1",
              !.space = Marked(Marked(w.space, w.base, "free"), w.base + 1, "free")]

\* MapViewOfFileEx(map, .., cap, a): the address space, ok telling that a view
\* was mapped.
MapViewOfFileEx(sp, a, ok) == IF ok THEN Marked(sp, a, "view") ELSE sp

\* let p1 = MapViewOfFileEx(.., base)
MappedFirst(w, ok) ==
    [w EXCEPT !.p1 = ok, !.space = MapViewOfFileEx(w.space, w.base, ok),
              !.pc = "MapViewOfFileEx2"]

\* let p2 = MapViewOfFileEx(.., base + cap)
MappedSecond(w, ok) ==
    [w EXCEPT !.p2 = ok, !.space = MapViewOfFileEx(w.space, w.base + 1, ok),
              !.pc = "test"]

\* The test that returns the mapping, satisfied by one view.
EitherMapped(p1, p2) == p1 \/ p2

\* !p1.is_null() && !p2.is_null()
BothMapped(p1, p2) == p1 /\ p2

\* The test after the two MapViewOfFileEx: CloseHandle and return, or go on to
\* unmap.
Tested(w) ==
    IF BothMapped(w.p1, w.p2) THEN [w EXCEPT !.pc = "returned", !.open = FALSE]
    ELSE [w EXCEPT !.pc = "UnmapViewOfFile1"]

\* if !p1.is_null() { UnmapViewOfFile(p1) }
UnmappedFirst(w) ==
    [w EXCEPT !.pc = "UnmapViewOfFile2",
              !.space = IF w.p1 THEN Marked(w.space, w.base, "free") ELSE w.space]

\* if !p2.is_null() { UnmapViewOfFile(p2) }, and the head of the loop.
UnmappedSecond(w) ==
    Looped([w EXCEPT !.space = IF w.p2 THEN Marked(w.space, w.base + 1, "free")
                                ELSE w.space])

\* The variables of the buffer, which allocate run on its own leaves alone.
OnlyWin ==
    UNCHANGED <<size_of, ptr, cap, base, len, vm, file, maps, alive,
                nextId, ended, op, run, pushOnly, ext, calc, copy, list>>

InitWindows ==
    /\ size_of = 1
    /\ Constructed(new, "new")
    /\ calc = NoCalc
    /\ win \in {Entered(sp) : sp \in [Addrs -> {"free", "other"}]}

AllocateCreate ==
    /\ win.pc = "CreateFileMapping"
    /\ \E ok \in BOOLEAN : win' = CreateFileMapping(win, ok)
    /\ OnlyWin

\* VirtualAlloc returns a range of 2 * cap free bytes, or null.
AllocateReserve ==
    /\ win.pc = "VirtualAlloc"
    /\ \E b \in {a \in Addrs : Available(win.space, a, 2)} \cup {Null} :
          win' = VirtualAlloc(win, b)
    /\ OnlyWin

AllocateRelease ==
    /\ win.pc = "VirtualFree"
    /\ win' = VirtualFree(win)
    /\ OnlyWin

\* MapViewOfFileEx fails if the address is not free, and may fail if it is.
AllocateMapFirst ==
    /\ win.pc = "MapViewOfFileEx1"
    /\ \E ok \in {FALSE, Available(win.space, win.base, 1)} : win' = MappedFirst(win, ok)
    /\ OnlyWin

AllocateMapSecond ==
    /\ win.pc = "MapViewOfFileEx2"
    /\ \E ok \in {FALSE, Available(win.space, win.base + 1, 1)} :
          win' = MappedSecond(win, ok)
    /\ OnlyWin

AllocateTest ==
    /\ win.pc = "test"
    /\ win' = Tested(win)
    /\ OnlyWin

AllocateUnmapFirst ==
    /\ win.pc = "UnmapViewOfFile1"
    /\ win' = UnmappedFirst(win)
    /\ OnlyWin

AllocateUnmapSecond ==
    /\ win.pc = "UnmapViewOfFile2"
    /\ win' = UnmappedSecond(win)
    /\ OnlyWin

\* The other thread maps or reserves the free range a.
OtherTakes(a) ==
    /\ win.pc # "none"
    /\ win.space[a] = "free"
    /\ win' = [win EXCEPT !.space = Marked(win.space, a, "other")]
    /\ OnlyWin

\* The other thread gives back its range a.
OtherGivesBack(a) ==
    /\ win.pc # "none"
    /\ win.space[a] = "other"
    /\ win' = [win EXCEPT !.space = Marked(win.space, a, "free")]
    /\ OnlyWin

NextWindows ==
    \/ AllocateCreate
    \/ AllocateReserve
    \/ AllocateRelease
    \/ AllocateMapFirst
    \/ AllocateMapSecond
    \/ AllocateTest
    \/ AllocateUnmapFirst
    \/ AllocateUnmapSecond
    \/ \E a \in Addrs : OtherTakes(a)
    \/ \E a \in Addrs : OtherGivesBack(a)

SpecWindows == InitWindows /\ [][NextWindows]_vars

----------------------------------------------------------------------------
\* C1: in every state reached by the safe operations and by add_len and set_len
\* called within their documented preconditions, 0 <= len <= capacity(), and once
\* a mapping has been allocated (cap > 0), 0 <= base < cap.
C1_LenWithinCapacity ==
    /\ 0 <= len /\ len <= capacity
    /\ cap > 0 => (0 <= base /\ base < cap)

\* A full buffer whose window starts above 0, after the base offset wrapped and
\* the length was set by add_len or set_len.
C1_Witness ==
    /\ cap > 0 /\ base > 0 /\ len = capacity /\ Wrapped
    /\ op.name \in {"add_len", "set_len"}
    /\ \E e \in DOMAIN ended : ended[e] > 0

\* C2, as stated: after any run of k pushes followed by k pops, the k values
\* popped are the k values pushed, in order, whatever the buffer held before.
C2_FifoFromAnyState ==
    (run.pushed # <<>> /\ Len(run.popped) = Len(run.pushed)) => run.popped = run.pushed

\* C2, amended: after a run of k pushes that started on an empty buffer (len = 0,
\* any base offset) followed by k pops, the k values popped are the k values
\* pushed, in order.
C2_FifoFromEmpty ==
    (run.start = 0 /\ run.pushed # <<>> /\ Len(run.popped) = Len(run.pushed))
        => run.popped = run.pushed

\* Two or more pushes from an empty buffer with base > 0, one of them growing the
\* buffer, and as many pops.
C2_Witness ==
    /\ run.start = 0 /\ run.base0 > 0 /\ run.grew
    /\ Len(run.pushed) >= 2 /\ run.popped = run.pushed

\* What reallocate left is a buffer with the content and length of this one.
KeptBy(r) == r.panic \/ (slice_of(r) = as_slice /\ r.len = len)

\* C3: while only pushes have been made since construction, the slice view is the
\* sequence of the values pushed, whatever growth happened; and a growth of any
\* reachable buffer, also one whose window starts at base > 0 and crosses cap,
\* leaves the element sequence and len unchanged.
C3_GrowthKeepsContent ==
    /\ pushOnly => as_slice = run.pushed
    /\ alive => \A additional \in 1..MaxArg : \A os \in OsSuccesses :
                    KeptBy(reallocate(Self, additional, os))

\* Pushes only, the last of them the second growth of an allocated buffer.
C3_Witness ==
    /\ pushOnly /\ op.name = "push" /\ op.grew
    /\ len >= 3 /\ cap >= 3 * Granularity

\* A push that grew a buffer whose window started at base > 0 and crossed cap.
C3_WitnessWrapped ==
    /\ op.name = "push" /\ op.grew /\ op.wrapped /\ len >= 2
    /\ \A i \in 1..len : as_slice[i] > 0

\* The elements of the slice view.
Live == {as_slice[i] : i \in 1..len}

\* C4: an element constructed into the buffer is in the buffer and neither
\* destructed nor handed back, or it is out of it and was destructed or handed
\* back by pop exactly once; no destructor runs on bytes that are no element;
\* after drop every element constructed was destructed or handed back once.
C4_DestructedOnce ==
    /\ ended[0] = 0
    /\ \A e \in 1..MaxElems :
         ended[e] = IF e < nextId /\ e \notin Live THEN 1 ELSE 0
    /\ ~alive => len = 0

\* A buffer that grew, dropped after every element of the budget was constructed.
C4_Witness ==
    /\ ~alive /\ op.name = "drop" /\ nextId = MaxElems + 1
    /\ cap >= 2 * Granularity
    /\ \A e \in 1..MaxElems : ended[e] = 1

\* C5: in the mapping of an allocated buffer, on every backend, offsets o and
\* o + cap are mapped to the same byte of the backing object, so that they read
\* the same byte after allocation and after every write.
C5_Mirror ==
    cap > 0 => \A o \in 0..(cap - 1) :
                  /\ VmAt(vm, o) \in 0..(cap - 1)
                  /\ VmAt(vm, o + cap) = VmAt(vm, o)
                  /\ Load(o) # Fault
                  /\ Load(o + cap) = Load(o)

\* A push wrote its element in the second half; it is read in the first half.
C5_Witness ==
    /\ cap > 0 /\ op.name = "push" /\ ~op.panic /\ len > 0
    /\ base + (len - 1) * size_of >= cap
    /\ ReadIn(vm, file, base + (len - 1) * size_of - cap, size_of) = nextId - 1

\* What reserve(additional) left, when it returned.
ReserveOk(r, additional) ==
    \/ /\ r.panic
       /\ capacity - len < additional
    \/ /\ ~r.panic /\ ~r.ub
       /\ capacity_of(r) >= r.len + additional
       /\ r.len = len
       /\ slice_of(r) = as_slice
       /\ capacity - len >= additional =>
             /\ r.ptr = ptr /\ r.cap = cap /\ r.base = base
             /\ r.maps = maps /\ ~r.grew

\* C6: after reserve(additional) returns, capacity() >= len() + additional, len
\* and the elements are unchanged; when capacity() - len() >= additional held
\* before, it returns, ptr, cap and base are unchanged and no mapping is made.
C6_Reserve ==
    alive => \A additional \in Additionals : \A os \in OsOutcomes :
                ReserveOk(reserve(Self, additional, os), additional)

\* reserve grew a buffer holding elements in a window that crossed cap.
C6_Witness ==
    /\ op.name = "reserve" /\ op.grew /\ op.wrapped /\ len > 0
    /\ \A i \in 1..len : as_slice[i] > 0

\* The last n elements of q.
LastN(q, n) == SubSeq(q, Len(q) - n + 1, Len(q))

\* What extend_from_slice then remove_tail left of an empty buffer.
RoundOk(r) ==
    /\ ~r.panic /\ ~r.grew
    /\ r.len = 0
    /\ r.ptr = ptr /\ r.cap = cap
    /\ cap > 0 => r.base < cap

\* C7: extend_from_slice(s) with |s| = m followed by remove_tail(m) leaves len as
\* it was and the last len elements of (old content, s) as content; on an empty
\* buffer with m <= capacity() it leaves the buffer empty, does not grow it and
\* keeps base < cap.
C7_RoundTrip ==
    /\ ext.phase = 2 =>
          /\ len = Len(ext.old)
          /\ as_slice = LastN(ext.old \o ext.s, Len(ext.old))
    /\ (alive /\ len = 0) =>
          \A m \in 0..MaxArg : \A os \in OsOutcomes :
              m <= capacity =>
                  RoundOk(remove_tail(extend_from_slice(Self, Fresh(m), os), m))

\* A round trip of two elements on a buffer that held one.
C7_Witness ==
    /\ ext.phase = 2 /\ op.name = "remove_tail"
    /\ Len(ext.old) >= 1 /\ Len(ext.s) >= 2

\* C8: no operation decreases capacity(): clear, truncate, pop and remove_tail
\* leave ptr and cap unchanged, push, extend_from_slice and resize leave them
\* unchanged when the new length fits the capacity, a growth increases
\* capacity(); after clear, len = 0 and the slice view is empty.
C8_CapacityNeverDecreases ==
    [][alive =>
         /\ capacity' >= capacity
         /\ op'.name \in {"clear", "truncate", "pop", "remove_tail"}
               => (ptr' = ptr /\ cap' = cap)
         /\ (op'.name \in {"push", "extend_from_slice", "resize_with"} /\ len' <= capacity)
               => (ptr' = ptr /\ cap' = cap /\ ~op'.grew)
         /\ op'.grew => capacity' > capacity
         /\ op'.name = "clear" => (len' = 0 /\ as_slice' = <<>>)]_vars

\* A clear after every element of the budget was pushed onto a buffer of bytes
\* and cleared, the buffer still on its first mapping.
C8_Witness ==
    /\ op.name = "clear" /\ len = 0 /\ as_slice = <<>>
    /\ size_of = 1 /\ cap = Granularity /\ base = 0
    /\ nextId = MaxElems + 1 /\ \A e \in 1..MaxElems : ended[e] = 1

\* What pop left of an empty buffer.
PopNone(r) ==
    /\ r.ret = 0 /\ ~r.panic
    /\ r.ptr = ptr /\ r.cap = cap /\ r.base = base /\ r.len = len
    /\ r.file = file /\ r.dropped = <<>>

\* What remove_tail(n) with n > len left.
Clamped(r) ==
    /\ ~r.panic
    /\ r.len = 0
    /\ r.dropped = as_slice
    /\ r.ptr = ptr /\ r.cap = cap
    /\ r.base = IF cap = 0 THEN 0 ELSE (base + len * size_of) % cap

\* C9: pop on an empty buffer returns None and changes nothing; remove_tail(n)
\* with n > len removes the len elements there are, advances base by them modulo
\* cap and raises no error, also on a buffer that never allocated.
C9_EmptyOutcomes ==
    alive =>
        /\ len = 0 => PopNone(pop(Self))
        /\ \A n \in 0..(MaxElems + 1) : n > len => Clamped(remove_tail(Self, n))

\* remove_tail(n) with n > len emptied a buffer and left its base above 0.
C9_Witness ==
    /\ op.name = "remove_tail" /\ op.clamped
    /\ len = 0 /\ base > 0
    /\ \E e \in 1..MaxElems : ended[e] = 1

\* C10: a call whose growth step panics leaves ptr, cap, base, len and the
\* content as they were, runs no destructor, and the mapping stays mapped.
C10_FailedGrowthChangesNothing ==
    [][op'.panic =>
         /\ ptr' = ptr /\ cap' = cap /\ base' = base /\ len' = len
         /\ vm' = vm /\ file' = file /\ as_slice' = as_slice
         /\ ended' = ended
         /\ maps' = maps
         /\ cap > 0 => [ptr |-> ptr, cap |-> cap] \in maps'.live]_vars

\* A push failed to grow a full buffer whose window crosses cap.
C10_Witness ==
    /\ op.name = "push" /\ op.panic
    /\ len > 0 /\ len = capacity /\ Wrapped
    /\ [ptr |-> ptr, cap |-> cap] \in maps.live

\* C11: on every backend, a call of allocate that fails leaves no address range
\* reserved or mapped behind when it raises its fatal error.
C11_FailedAllocateLeavesNothing ==
    op.panic => op.left = <<>>

\* C11 on the backends where it holds: a call of allocate that fails on Linux
\* or on Windows leaves nothing reserved or mapped, whichever call failed and
\* whatever capacity was asked for.
C11_LinuxWindowsLeaveNothing ==
    alive => \A k \in 1..MaxArg : \A os \in OsOutcomes :
                (os.failed # "none" /\ os.platform \in {"linux", "windows"})
                    => allocate(len + k, size_of, os, maps).left = <<>>

\* A growth failed after the address range was reserved.
C11_Witness ==
    /\ op.panic /\ op.left = <<>> /\ len > 0
    /\ round_capacity(len + 1, size_of).ok

\* The smallest multiple of g that is >= r.
Ceiling(r, g) == ((r + g - 1) \div g) * g

\* C12: for every byte count r >= 1 and power-of-two granularity g for which
\* round_capacity accepts the result, the result is the smallest multiple of g
\* that is >= r; an r that is a multiple of g is returned as it is.
C12_RoundingIsCeiling ==
    (calc.fn = "round_capacity" /\ calc.done /\ calc.ok) =>
        /\ calc.x * calc.y >= 1
        /\ calc.cap = Ceiling(calc.x * calc.y, calc.g)
        /\ calc.cap % calc.g = 0
        /\ calc.cap >= calc.x * calc.y
        /\ calc.cap - calc.g < calc.x * calc.y
        /\ (calc.x * calc.y) % calc.g = 0 => calc.cap = calc.x * calc.y

\* A request of exactly one granule of more than a byte was rounded to one granule.
C12_Witness ==
    /\ calc.fn = "round_capacity" /\ calc.done /\ calc.ok
    /\ calc.g > 1 /\ calc.x * calc.y = calc.g /\ calc.cap = calc.g

\* C13: in w-bit arithmetic the capacity computation panics or returns a
\* half-capacity c with count * size <= c and 0 < c < isize::MAX / 2, so that
\* c + c does not overflow; a product that overflows, a rounding that wraps to 0
\* and a byte count of 0 are rejected; len + additional overflowing is rejected.
C13_NoWrappedCapacity ==
    /\ (calc.fn = "round_capacity" /\ calc.done /\ calc.ok) =>
          /\ calc.x * calc.y <= calc.cap
          /\ 0 < calc.cap /\ 2 * calc.cap < IsizeMax
          /\ calc.cap + calc.cap <= UsizeMax
    /\ (calc.fn = "round_capacity" /\ calc.done) =>
          /\ calc.x * calc.y > UsizeMax => ~calc.ok
          /\ calc.x * calc.y = 0 => ~calc.ok
          /\ Ceiling(calc.x * calc.y, calc.g) > UsizeMax => ~calc.ok
    /\ (calc.fn = "checked_add" /\ calc.done) =>
          /\ calc.ok <=> calc.x + calc.y <= UsizeMax
          /\ calc.ok => calc.cap = calc.x + calc.y

\* A byte count that fits usize and whose rounding wraps to 0 was rejected.
C13_Witness ==
    /\ calc.fn = "round_capacity" /\ calc.done /\ ~calc.ok
    /\ calc.x * calc.y >= 1 /\ calc.x * calc.y <= UsizeMax
    /\ RoundUp(calc.x * calc.y, calc.g) = 0

\* C14: every mapping allocate returned is given to free once, with the cap it
\* was allocated with: free is never given anything but a live mapping and its
\* cap, a live buffer's mapping is the one mapping not yet freed, and after drop
\* none is left, whatever growth happened.
C14_MappingFreedOnce ==
    /\ ~maps.bad
    /\ alive => maps.live = IF cap > 0 THEN {[ptr |-> ptr, cap |-> cap]} ELSE {}
    /\ ~alive => maps.live = {}

\* A buffer that grew to a second mapping at least, dropped.
C14_Witness ==
    /\ ~alive /\ op.name = "drop"
    /\ ptr > 0 /\ cap >= 2 * Granularity
    /\ maps.live = {} /\ ~maps.bad

\* The fields and the content of the clone.
CopyKept ==
    /\ copy'.ptr = copy.ptr /\ copy'.cap = copy.cap
    /\ copy'.base = copy.base /\ copy'.len = copy.len
    /\ slice_of(copy') = slice_of(copy)

\* The fields and the content of the buffer clone() was called on.
SelfKept ==
    /\ ptr' = ptr /\ cap' = cap /\ base' = base /\ len' = len
    /\ as_slice' = as_slice

\* C15: the buffer clone() returns has the slice view the source had when it was
\* called and a mapping of its own; from then on a call on one of the two
\* buffers leaves ptr, cap, base, len and the content of the other as they were.
C15_CloneIsIndependent ==
    [][/\ copy'.made => copy'.got = copy'.at
       /\ (copy'.alive /\ alive' /\ copy'.cap > 0) =>
             /\ copy'.ptr # ptr'
             /\ [ptr |-> copy'.ptr, cap |-> copy'.cap] \in maps'.live
       /\ op'.name = "clone" => SelfKept
       /\ (copy.alive /\ op'.name \in {"push", "pop", "drop"}) => CopyKept
       /\ (alive /\ op'.name \in {"clone.push", "clone.pop", "clone.drop"})
             => SelfKept]_vars

\* The clone of a buffer whose window crossed cap was pushed onto, while the
\* source holds what it held.
C15_Witness ==
    /\ copy.made /\ copy.alive /\ alive
    /\ op.name = "clone.push" /\ ~op.panic
    /\ Len(copy.at) >= 1 /\ as_slice = copy.at /\ Wrapped
    /\ copy.len = len + 1 /\ copy.ptr # ptr

\* The values the closure would return, call after call.
Offered == Fresh(MaxArg + 2)

\* What resize_with(n, f) left, when it returned.
Resized(r, n) ==
    \/ r.panic /\ n > capacity
    \/ /\ ~r.panic
       /\ r.len = n
       /\ n <= len => (r = truncate(Self, n) /\ r.calls = 0)
       /\ n > len =>
             /\ r.calls = n - len
             /\ slice_of(r) = as_slice \o SubSeq(Offered, 1, n - len)
             /\ r.dropped = <<>>

\* C16: resize_with(n, f) and resize(n, v), when they return, leave len = n; for
\* n <= len the buffer is what truncate(n) leaves and f is not called; for n > len
\* the first len elements are as they were, f is called n - len times and the
\* slots len..n hold what it returned, in the order of the calls.
C16_ResizeEndsWithLen ==
    alive => \A n \in 0..(MaxArg + 1) : \A os \in OsSuccesses :
                /\ Resized(resize_with(Self, n, Offered, os), n)
                /\ resize(Self, n, Offered, os) = resize_with(Self, n, Offered, os)

\* resize_with grew a buffer whose window crossed cap and filled a slot.
C16_Witness ==
    /\ op.name = "resize_with" /\ ~op.panic /\ op.grew /\ op.wrapped
    /\ len >= 2 /\ as_slice[len] = nextId - 1 /\ as_slice[1] > 0

\* A call that needs space left r of a buffer that had no mapping: it panicked,
\* or r has the one mapping there is.
FirstMapping(r) ==
    r.panic \/ (r.grew /\ r.cap > 0 /\ r.maps.live = {[ptr |-> r.ptr, cap |-> r.cap]})

\* C17: new() and with_capacity(0) give cap = base = len = 0 and call no
\* allocator; a buffer with cap = 0 keeps it under pop, remove_tail, truncate,
\* clear and reserve(0); the first mapping is made by a push, a reserve(k > 0),
\* an extend_from_slice of a non-empty slice or a resize to n > 0, and from then
\* on cap > 0; dropping a buffer that never allocated releases nothing.
C17_LazyAllocation ==
    [][/\ new.ptr = 0 /\ new.cap = 0 /\ new.base = 0 /\ new.len = 0
       /\ new.maps.live = {}
       /\ \A os \in OsOutcomes : with_capacity(0, size_of, os) = new
       /\ (cap = 0 /\ op'.name \in {"pop", "remove_tail", "truncate", "clear"})
             => (cap' = 0 /\ maps' = maps)
       /\ (cap = 0 /\ alive) =>
             /\ \A os \in OsOutcomes : reserve(Self, 0, os) = Self
             /\ \A k \in 1..MaxArg : \A os \in OsSuccesses :
                   /\ FirstMapping(reserve(Self, k, os))
                   /\ FirstMapping(extend_from_slice(Self, Fresh(k), os))
                   /\ FirstMapping(resize_with(Self, k, Fresh(k), os))
             /\ \A os \in OsSuccesses : FirstMapping(push(Self, nextId, os))
       /\ (cap = 0 /\ cap' > 0) =>
             /\ op'.name \in {"push", "reserve", "extend_from_slice", "resize_with"}
             /\ op'.grew
             /\ maps.live = {}
       /\ cap > 0 => cap' > 0
       /\ (cap = 0 /\ op'.name = "drop") => (maps' = maps /\ maps'.live = {} /\ ~maps'.bad)
      ]_vars

\* The first push onto a buffer made by new() made the first mapping.
C17_Witness ==
    /\ pushOnly /\ op.name = "push" /\ op.grew
    /\ nextId = 2 /\ len = 1 /\ cap > 0
    /\ maps.live = {[ptr |-> ptr, cap |-> cap]}

\* C18: under any interleaving of the calls, the slice view (len elements read
\* from byte offset base on, past cap into the mirror where the window crosses
\* it) is the abstract list on which push and extend_from_slice append, pop and
\* remove_tail remove from the start, truncate(n) keeps the first n elements
\* and clear removes all.
C18_SliceIsAbstractList ==
    /\ Len(list) = len
    /\ as_slice = list

\* truncate cut a window that crosses cap, and the window still crosses it.
C18_Witness ==
    /\ op.name = "truncate" /\ Wrapped /\ len >= 1
    /\ as_slice = list
    /\ \E e \in 1..MaxElems : e > list[len] /\ e < nextId /\ ended[e] = 1

\* The buffer r, left by a growth of Self, is sized for n elements.
SizedFor(r, n) ==
    \/ r.panic
    \/ /\ r.grew
       /\ r.cap = Ceiling(n * size_of, Granularity)
       /\ r.base = 0
       /\ r.len = len

\* C19: a growth (reserve with additional > capacity() - len) that succeeds
\* leaves cap the smallest multiple of the granularity that is at least
\* (len + additional) * size_of, base = 0 and len as it was; the calls that
\* grew and then stored their elements end with cap that multiple for the new
\* len.
C19_GrowthSizing ==
    /\ alive =>
          \A additional \in 1..MaxArg : \A os \in OsSuccesses :
             additional > reserved_len(Self) =>
                SizedFor(reserve(Self, additional, os), len + additional)
    /\ (op.grew /\ ~op.panic /\ op.name \in {"push", "extend_from_slice", "resize_with"}) =>
          /\ base = 0
          /\ cap = Ceiling(len * size_of, Granularity)

\* The third push grew a buffer of two elements into a mapping of three pages
\* of the model.
C19_Witness ==
    /\ op.name = "push" /\ op.grew /\ ~op.panic
    /\ size_of = 3 /\ len = 3 /\ base = 0
    /\ cap = Ceiling(len * size_of, Granularity)
    /\ cap = 3 * Granularity

\* drop left r: the destructors of the elements of the slice ran, in a mapping
\* that was in place, and the mapping is in place no more.
DropOrdered(r) ==
    /\ r.dropped = as_slice
    /\ ~r.uaf
    /\ [ptr |-> ptr, cap |-> cap] \notin r.maps.live
    /\ ~r.maps.bad

\* reallocate left r: the elements were copied while both mappings were in
\* place, no destructor ran on them, and the old mapping is in place no more.
GrowthOrdered(r) ==
    \/ r.panic
    \/ /\ ~r.uaf
       /\ r.dropped = <<>>
       /\ slice_of(r) = as_slice
       /\ [ptr |-> r.ptr, cap |-> r.cap] \in r.maps.live
       /\ [ptr |-> ptr, cap |-> cap] \notin r.maps.live
       /\ ~r.maps.bad

\* C20: dropping the buffer runs the destructors of its len elements and then
\* frees the mapping; a growth copies the elements out of the old mapping, runs
\* no destructor on them, and then frees the old mapping; no call reads, writes
\* or destructs an element in a mapping that was freed.
C20_ReleaseOrdering ==
    /\ ~op.uaf
    /\ alive => DropOrdered(drop(Self))
    /\ alive =>
          \A additional \in 1..MaxArg : \A os \in OsSuccesses :
             GrowthOrdered(reallocate(Self, additional, os))

\* A buffer that grew was dropped; the destructors of elements 1 and 2 ran once.
C20_Witness ==
    /\ op.name = "drop" /\ ~alive /\ ~op.uaf
    /\ size_of = 3 /\ cap = 2 * Granularity
    /\ maps.live = {}
    /\ ended[1] = 1 /\ ended[2] = 1

\* The ranges of the address space that hold a view or a reservation of allocate.
Held(sp) == {a \in DOMAIN sp : sp[a] \in {"view", "reserved"}}

\* C21: whatever addresses the other thread takes and gives back, and when,
\* windows.rs allocate calls VirtualAlloc at most Attempts times; it returns
\* only with views of its file mapping at base and at base + cap and no other
\* view; each new attempt starts, and each fatal error is raised, with no view
\* of it mapped; error("MapViewOfFileEx") is raised only after Attempts attempts.
C21_WindowsRetry ==
    /\ win.tries <= Attempts
    /\ win.pc = "returned" =>
          /\ win.p1 /\ win.p2
          /\ win.space[win.base] = "view" /\ win.space[win.base + 1] = "view"
          /\ Held(win.space) = {win.base, win.base + 1}
    /\ win.pc \in {"VirtualAlloc", "panicked"} => Held(win.space) = {}
    /\ (win.pc = "panicked" /\ win.err = "MapViewOfFileEx") => win.tries = Attempts
    /\ (win.pc = "VirtualAlloc" /\ win.tries > 0) => ~(win.p1 /\ win.p2)

\* allocate returned at its last attempt, the other thread holding an address.
C21_Witness ==
    /\ win.pc = "returned" /\ win.tries = Attempts
    /\ win.space[win.base] = "view" /\ win.space[win.base + 1] = "view"
    /\ \E a \in Addrs : win.space[a] = "other"

\* The virtual offsets of the bytes of the live elements of r.
LiveBytes(r) == as_ptr(r)..(as_ptr(r) + r.len * size_of - 1)

\* The virtual offsets of the bytes reserved_ptr and reserved_mut hand out.
SpareBytes(r) == reserved_ptr(r)..(reserved_ptr(r) + reserved_len(r) * size_of - 1)

\* The bytes at the offsets vs are inside the two halves of r's mapping, and no
\* two of them are one byte of the backing object.
Apart(r, vs) ==
    /\ \A v \in vs : 0 <= v /\ v < r.cap + r.cap
    /\ \A v \in vs : \A u \in vs :
          v # u => (v % r.cap # u % r.cap /\ VmAt(r.vm, v) # VmAt(r.vm, u))

\* No live byte is a spare byte, and all of them are apart.
NoAlias(r) ==
    /\ LiveBytes(r) \cap SpareBytes(r) = {}
    /\ Apart(r, LiveBytes(r) \cup SpareBytes(r))

\* reserve(1) in push left r: the slot push writes to is the first spare one.
PushSlotApart(r) ==
    r.panic \/ (reserved_len(r) >= 1 /\ NoAlias(r))

\* C22: in every reachable state the bytes of the live elements and of the
\* reserved_len() spare slots from reserved_ptr() on lie in [0, 2 * cap), no two
\* of them are congruent modulo cap, and so none are the same byte of the
\* backing object; this holds too for the buffer push writes into.
C22_NoAliasing ==
    /\ NoAlias(Self)
    /\ alive => \A os \in OsSuccesses : PushSlotApart(reserve(Self, 1, os))

\* push wrote an element across cap, and a spare slot follows it in the mirror.
C22_Witness ==
    /\ op.name = "push" /\ Wrapped /\ size_of = 3
    /\ len >= 1 /\ reserved_len(Self) >= 1
    /\ reserved_ptr(Self) > cap
====
